---- MODULE Spec2Model ----
(***************************************************************************)
(* Model of the probability estimator of Theorazine (src/js/calculator.js): *)
(* the input validator, the memoization cache, the four estimator          *)
(* operations and the two formatters; of the page that drives it           *)
(* (src/js/app.js): the inputs, the sliders, the debounce timer, the       *)
(* comparison chart and updateCalculations; of the remote analysis request *)
(* and the serverless function behind it (src/unnamed/part_001, part_003); *)
(* of the loop of generateTimeSeries; and of the PerformanceMonitor        *)
(* (src/js/performance.js).                                                *)
(*                                                                         *)
(* Numbers.  A JavaScript value is a record [kind, val]:                   *)
(*   kind = "num"       a finite number, val its value                     *)
(*   kind = "NaN"       the number NaN                                     *)
(*   kind = "Infinity"  the number +Infinity                               *)
(*   kind = "string"    a string whose text is the decimal numeral of val  *)
(*   kind = "quotient"  a finite number that is no integer, val = <<n, d>>  *)
(*                      its value n/d in lowest terms                      *)
(* Conspirator counts and years are whole numbers.  Leak rates are held in *)
(* units of 1/10000 per year, so an exponent -p*N*t is an integer number   *)
(* of 1/10000ths.  Probabilities are fixed-point numbers in units of       *)
(* 1/ONE; percentages are in units of 1/ONE percent; the expected time is  *)
(* in units of 1/YEAR_ONE years.                                           *)
(***************************************************************************)
EXTENDS Integers, Sequences, FiniteSets

VARIABLES
    calculationCache,  \* the Map: sequence of [key, value] in insertion order
    insertedAt,        \* history: key -> rank of its insertion among the keys present
    evicted,           \* history: keys deleted from the Map by the last call
    op,                \* the operation last called ("none" before any call)
    args,              \* the arguments of the last call
    valid,             \* whether validateInputs returned normally in the last call
    threw,             \* whether the last call ended by throwing to its caller
    result,            \* the value the last call returned
    inner,             \* the value of the nested call: survival inside exposure,
                       \* the expected time inside survivalAtExpectedTime
    hit,               \* whether the last call was answered from the cache
    error,             \* message of the Error validateInputs threw in the last call
    formatted,         \* the last formatting call: function, input and text returned
    ui,                \* the page: input and slider values, debounce timer, results shown
    remote,            \* the remote analysis: request in flight, panel, button
    loop,              \* the for loop of generateProbabilityOverTime, step by step
    invocation,        \* the last invocation of the serverless function
    monitor,           \* the PerformanceMonitor: its metrics and what was recorded
    calls              \* number of calls made, counted up to MaxCalls

vars == <<calculationCache, insertedAt, evicted, op, args, valid, threw,
          result, inner, hit, error, formatted, ui, remote, loop, invocation,
          monitor, calls>>

----------------------------------------------------------------------------
(* Bounds of the model *)

\* calculator.js:19 sets 1000; the model runs the same code with a small limit
CACHE_SIZE_LIMIT == 2

\* number of calls explored from the empty cache in SpecFn
MaxCalls == 1

----------------------------------------------------------------------------
(* Program constants *)

MIN_CONSPIRATORS == 1
MAX_CONSPIRATORS == 10000000
MIN_YEARS == 0
MAX_YEARS == 1000

\* fixed-point scales of the model
ONE == 1000 * 1000
YEAR_ONE == 100 * 1000
RATE_ONE == 10 * 1000

\* LEAK_RATES in units of 1/RATE_ONE per year
LEAK_RATES ==
    [ scientists |-> 4, intelligence |-> 3, government |-> 5,
      military |-> 4, corporate |-> 6, general |-> 10 ]

----------------------------------------------------------------------------
(* JavaScript values *)

Num(n) == [kind |-> "num", val |-> n]
NaN == [kind |-> "NaN", val |-> 0]
Infinity == [kind |-> "Infinity", val |-> 0]
Str(n) == [kind |-> "string", val |-> n]

RECURSIVE GCD(_, _)
GCD(a, b) == IF b = 0 THEN a ELSE GCD(b, a % b)

\* the number n / d for n >= 0 and d > 0
Quot(n, d) ==
    IF n % d = 0 THEN Num(n \div d)
    ELSE [kind |-> "quotient", val |-> <<n \div GCD(n, d), d \div GCD(n, d)>>]

\* typeof v === 'number'
IsNumberType(v) == v.kind \in {"num", "NaN", "Infinity", "quotient"}

\* ToNumber(v), as the relational operators apply it to a numeric string
ToNumber(v) == IF v.kind = "string" THEN Num(v.val) ELSE v

\* a < b on JavaScript values: false as soon as one side is NaN
JsLt(a, b) ==
    LET x == ToNumber(a)
        y == ToNumber(b)
    IN  IF x.kind = "NaN" \/ y.kind = "NaN" THEN FALSE
        ELSE IF x.kind = "Infinity" THEN FALSE
        ELSE IF y.kind = "Infinity" THEN TRUE
        ELSE IF x.kind = "quotient" /\ y.kind = "quotient"
        THEN x.val[1] * y.val[2] < y.val[1] * x.val[2]
        ELSE IF x.kind = "quotient" THEN x.val[1] \div x.val[2] < y.val
        ELSE IF y.kind = "quotient" THEN x.val <= y.val[1] \div y.val[2]
        ELSE x.val < y.val

JsGt(a, b) == JsLt(b, a)

\* a <= b is !(b < a) unless one side is NaN
JsLe(a, b) ==
    LET x == ToNumber(a)
        y == ToNumber(b)
    IN  IF x.kind = "NaN" \/ y.kind = "NaN" THEN FALSE
        ELSE ~JsLt(b, a)

\* the text a template literal gives a value: a number and the string that
\* spells it give the same text
JsToString(v) ==
    IF v.kind \in {"num", "string"} THEN <<"digits", v.val>>
    ELSE IF v.kind = "quotient" THEN <<"digits", v.val[1], "/", v.val[2]>>
    ELSE <<v.kind, 0>>

----------------------------------------------------------------------------
(* validateInputs: the message of the Error it throws, or "ok" *)

validateInputs(conspirators, years, professionType) ==
    IF ~IsNumberType(conspirators)
       \/ JsLt(conspirators, Num(MIN_CONSPIRATORS))
       \/ JsGt(conspirators, Num(MAX_CONSPIRATORS))
    THEN "Invalid number of conspirators"
    ELSE IF ~IsNumberType(years)
            \/ JsLt(years, Num(MIN_YEARS))
            \/ JsGt(years, Num(MAX_YEARS))
    THEN "Invalid number of years"
    ELSE IF professionType \notin DOMAIN LEAK_RATES
    THEN "Invalid profession type"
    ELSE "ok"

(* createCacheKey *)

\* a key that leaves the operation out
createCacheKeyNoOperation(conspirators, years, professionType, operation) ==
    <<"", JsToString(conspirators), JsToString(years), professionType>>

createCacheKey(conspirators, years, professionType, operation) ==
    <<operation, JsToString(conspirators), JsToString(years), professionType>>

----------------------------------------------------------------------------
(* Arithmetic *)

Max(a, b) == IF a >= b THEN a ELSE b
Min(a, b) == IF a <= b THEN a ELSE b

\* products are kept exactly up to SatCap; every product above it is far
\* beyond the -500 clamp and is held as SatCap
SatCap == 1000 * 1000 * 1000
SatMul(a, b) ==
    IF a = 0 \/ b = 0 THEN 0
    ELSE IF a > SatCap \div b THEN SatCap
    ELSE a * b

\* <<q, r>> with a * b = q * c + r and 0 <= r < c, for a, b >= 0 and
\* 0 < c <= SatCap \div 4, without leaving 32 bits; q is held at SatCap
RECURSIVE MulDivMod(_, _, _)
MulDivMod(a, b, c) ==
    IF b = 0 THEN <<0, 0>>
    ELSE LET half == MulDivMod(a, b \div 2, c)
             r == 2 * half[2] + (b % 2) * (a % c)
         IN  <<Min(SatCap, 2 * half[1] + (b % 2) * (a \div c) + r \div c), r % c>>

\* floor(a * b / ONE) for 0 <= a, b <= ONE, without leaving 32 bits
MulFix(a, b) ==
    LET ah == a \div 1000
        al == a % 1000
        bh == b \div 1000
        bl == b % 1000
    IN  ah * bh + ((ah * bl + al * bh) * 1000 + al * bl) \div ONE

\* floor(ONE * exp(-(2^k) / RATE_ONE)) for k = 0 .. 17; later factors round to 0
ExpTable ==
    << 999900, 999800, 999600, 999200, 998401, 996805, 993620, 987281, 974724,
       950088, 902668, 814810, 663915, 440784, 194290, 37748, 1424, 2 >>

ExpFactor(k) == IF k < Len(ExpTable) THEN ExpTable[k + 1] ELSE 0

RECURSIVE ExpBits(_, _, _)
ExpBits(mag, k, acc) ==
    IF mag = 0 THEN acc
    ELSE ExpBits(mag \div 2, k + 1,
                 IF mag % 2 = 1 THEN MulFix(acc, ExpFactor(k)) ELSE acc)

\* Math.exp(x) for an exponent x <= 0 in units of 1/RATE_ONE.  exp of a finite
\* double is positive down to about -745, so a value below the resolution of
\* the model is held as the smallest positive unit, never as 0.
MathExp(x) ==
    IF x.kind = "NaN" THEN NaN
    ELSE IF x.val >= 0 THEN Num(ONE)
    ELSE Num(Max(1, ExpBits(-x.val, 0, ONE)))

----------------------------------------------------------------------------
(* Results *)

RNum(v) == [kind |-> "num", val |-> v, series |-> <<>>]
RNaN == [kind |-> "NaN", val |-> 0, series |-> <<>>]
RInfinity == [kind |-> "Infinity", val |-> 0, series |-> <<>>]
RSeries(s) == [kind |-> "series", val |-> 0, series |-> s]
RNone == [kind |-> "none", val |-> 0, series |-> <<>>]

\* a JavaScript number as a result
RVal(v) == [kind |-> v.kind, val |-> v.val, series |-> <<>>]

----------------------------------------------------------------------------
(* The survival formula: calculator.js:79-86 *)

\* -leakRate * conspirators * years
Exponent(leakRate, conspirators, years) ==
    IF conspirators.kind = "NaN" \/ years.kind = "NaN" THEN NaN
    ELSE IF years.kind = "quotient"
    THEN Num(-MulDivMod(SatMul(leakRate, conspirators.val), years.val[1],
                        years.val[2])[1])
    ELSE Num(-SatMul(SatMul(leakRate, conspirators.val), years.val))

CLAMP_EXPONENT == 500

SurvivalFromExponentWrongSide(exponent) ==
    IF JsLt(exponent, Num(-CLAMP_EXPONENT * RATE_ONE)) THEN Num(ONE)
    ELSE IF JsGt(exponent, Num(0)) THEN Num(ONE)
    ELSE MathExp(exponent)

SurvivalFromExponentInclusive(exponent) ==
    IF JsLe(exponent, Num(-CLAMP_EXPONENT * RATE_ONE)) THEN Num(0)
    ELSE IF JsGt(exponent, Num(0)) THEN Num(ONE)
    ELSE MathExp(exponent)

SurvivalFromExponent(exponent) ==
    IF JsLt(exponent, Num(-CLAMP_EXPONENT * RATE_ONE)) THEN Num(0)
    ELSE IF JsGt(exponent, Num(0)) THEN Num(ONE)
    ELSE MathExp(exponent)

SurvivalCalc(conspirators, years, professionType) ==
    RVal(SurvivalFromExponent(
            Exponent(LEAK_RATES[professionType], conspirators, years)))

----------------------------------------------------------------------------
(* calculateExposureProbability: Math.max(0, Math.min(1, 1 - survivalProb)) *)

ExposureNoComplement(survivalProb) ==
    IF survivalProb.kind = "NaN" THEN RNaN
    ELSE RNum(Max(0, Min(ONE, survivalProb.val)))

ExposureFromSurvival(survivalProb) ==
    IF survivalProb.kind = "NaN" THEN RNaN
    ELSE RNum(Max(0, Min(ONE, ONE - survivalProb.val)))

----------------------------------------------------------------------------
(* The expected-time formula: calculator.js:132-139 *)

\* 0.693, in thousandths
LN2_MILLI == 693

\* 0.693 / (leakRate * conspirators) with the count left out
ExpectedYearsNoCount(leakRate, conspirators) ==
    Quot(LN2_MILLI * (RATE_ONE \div 1000), leakRate)

\* 0.693 / (leakRate * conspirators), the number of years itself
ExpectedYears(leakRate, conspirators) ==
    Quot(LN2_MILLI * (RATE_ONE \div 1000), leakRate * conspirators.val)

\* the result holds the years in units of 1/YEAR_ONE, rounded down
ExpectedCalc(conspirators, professionType) ==
    LET leakRate == LEAK_RATES[professionType]
    IN  IF JsLe(conspirators, Num(0)) \/ leakRate <= 0 THEN RInfinity
        ELSE IF conspirators.kind = "NaN" THEN RNaN
        ELSE RNum(Max(0, (LN2_MILLI * (RATE_ONE \div 1000) * YEAR_ONE)
                          \div (leakRate * conspirators.val)))

\* the number calculateExpectedTimeUntilExposure returned, as the argument of
\* a further call
ReturnedYears(expected, conspirators, professionType) ==
    IF expected.result.kind = "num"
    THEN ExpectedYears(LEAK_RATES[professionType], conspirators)
    ELSE [kind |-> expected.result.kind, val |-> 0]

----------------------------------------------------------------------------
(* The series loop: calculator.js:162-194 *)

STEP_WIDE == 200
STEP_MID == 100
STEP_NARROW == 50
NEGLIGIBLE_AFTER_YEAR == 10

\* tiers that start at the thresholds instead of above them
StepForInclusive(maxYears) ==
    IF JsLe(Num(STEP_WIDE), maxYears) THEN 10
    ELSE IF JsLe(Num(STEP_MID), maxYears) THEN 5
    ELSE IF JsLe(Num(STEP_NARROW), maxYears) THEN 2
    ELSE 1

StepFor(maxYears) ==
    IF JsGt(maxYears, Num(STEP_WIDE)) THEN 10
    ELSE IF JsGt(maxYears, Num(STEP_MID)) THEN 5
    ELSE IF JsGt(maxYears, Num(STEP_NARROW)) THEN 2
    ELSE 1

\* Math.exp(exponent) * 100, in units of 1/ONE percent
TimesHundred(v) == IF v.kind = "NaN" THEN NaN ELSE Num(v.val * 100)

\* a series that clamps to 0 far earlier than the survival formula
PointProbabilityEarlyClamp(exponent) ==
    IF JsLt(exponent, Num(-5 * RATE_ONE)) THEN Num(0)
    ELSE IF JsGt(exponent, Num(0)) THEN Num(100 * ONE)
    ELSE TimesHundred(MathExp(exponent))

PointProbability(exponent) ==
    IF JsLt(exponent, Num(-CLAMP_EXPONENT * RATE_ONE)) THEN Num(0)
    ELSE IF JsGt(exponent, Num(0)) THEN Num(100 * ONE)
    ELSE TimesHundred(MathExp(exponent))

\* Math.max(0, Math.min(100, probability))
ClampPercent(v) ==
    IF v.kind = "NaN" THEN NaN ELSE Num(Max(0, Min(100 * ONE, v.val)))

\* a loop that stops before maxYears: year < maxYears
RECURSIVE SeriesLoopExclusive(_, _, _, _, _, _)
SeriesLoopExclusive(year, step, maxYears, leakRate, conspirators, data) ==
    IF ~JsLt(Num(year), maxYears) THEN data
    ELSE LET exponent == Exponent(leakRate, conspirators, Num(year))
             probability == PointProbability(exponent)
             pushed == Append(data, [year |-> year,
                                     probability |-> ClampPercent(probability)])
         IN  IF JsLt(probability, Num(ONE \div 100)) /\ year > NEGLIGIBLE_AFTER_YEAR
             THEN pushed
             ELSE SeriesLoopExclusive(year + step, step, maxYears, leakRate,
                                      conspirators, pushed)

\* a loop that stops at the first negligible point, whatever its year
RECURSIVE SeriesLoopNoMinimum(_, _, _, _, _, _)
SeriesLoopNoMinimum(year, step, maxYears, leakRate, conspirators, data) ==
    IF ~JsLe(Num(year), maxYears) THEN data
    ELSE LET exponent == Exponent(leakRate, conspirators, Num(year))
             probability == PointProbability(exponent)
             pushed == Append(data, [year |-> year,
                                     probability |-> ClampPercent(probability)])
         IN  IF JsLt(probability, Num(ONE \div 100))
             THEN pushed
             ELSE SeriesLoopNoMinimum(year + step, step, maxYears, leakRate,
                                      conspirators, pushed)

RECURSIVE SeriesLoop(_, _, _, _, _, _)
SeriesLoop(year, step, maxYears, leakRate, conspirators, data) ==
    IF ~JsLe(Num(year), maxYears) THEN data
    ELSE LET exponent == Exponent(leakRate, conspirators, Num(year))
             probability == PointProbability(exponent)
             pushed == Append(data, [year |-> year,
                                     probability |-> ClampPercent(probability)])
         IN  IF JsLt(probability, Num(ONE \div 100)) /\ year > NEGLIGIBLE_AFTER_YEAR
             THEN pushed
             ELSE SeriesLoop(year + step, step, maxYears, leakRate,
                             conspirators, pushed)

SeriesCalc(conspirators, professionType, maxYears) ==
    RSeries(SeriesLoop(0, StepFor(maxYears), maxYears,
                       LEAK_RATES[professionType], conspirators, <<>>))

\* [{year: 0, probability: 100}]
FallbackSeries == RSeries(<<[year |-> 0, probability |-> Num(100 * ONE)]>>)

----------------------------------------------------------------------------
(* Formatting: calculator.js:236-280.  A string is a record: a literal, or  *)
(* a number printed with a count of decimals (digits = the number times    *)
(* 10^decimals) followed by a suffix.                                      *)

Literal(s) == [number |-> FALSE, digits |-> 0, decimals |-> 0, suffix |-> s]
Numeral(digits, decimals, suffix) ==
    [number |-> TRUE, digits |-> digits, decimals |-> decimals, suffix |-> suffix]

\* Math.round(v / unit): the nearest integer, halves upwards
MathRound(v, unit) == (2 * v + unit) \div (2 * unit)

\* (v / unit).toFixed(decimals), as the digits of the numeral
ToFixed(v, unit, decimals) ==
    MathRound(v * (IF decimals = 3 THEN 1000 ELSE IF decimals = 2 THEN 100 ELSE 10),
              unit)

MONTHS_PER_YEAR == 12
DAYS_PER_YEAR == 365

\* years: a number of 1/YEAR_ONE years, NaN or Infinity
formatTimeDuration(years) ==
    IF years.kind = "Infinity" THEN Literal("Never (no conspirators)")
    ELSE IF years.kind = "NaN" THEN Literal("NaN years")
    ELSE IF years.val < YEAR_ONE
    THEN LET months == MathRound(years.val * MONTHS_PER_YEAR, YEAR_ONE)
             days == MathRound(years.val * DAYS_PER_YEAR, YEAR_ONE)
         IN  IF months < 1
             THEN Numeral(days, 0, IF days # 1 THEN " days" ELSE " day")
             ELSE Numeral(months, 0, IF months # 1 THEN " months" ELSE " month")
    ELSE IF years.val < 2 * YEAR_ONE
    THEN Numeral(ToFixed(years.val, YEAR_ONE, 1), 1, " year")
    ELSE Numeral(MathRound(years.val, YEAR_ONE), 0, " years")

\* formatProbability with the last range test made inclusive
formatProbabilityInclusive(probability) ==
    IF probability.kind = "NaN" THEN Literal("NaN%")
    ELSE LET percentage == probability.val * 100
         IN  IF percentage < ONE \div 1000 THEN Literal("< 0.001%")
             ELSE IF percentage < ONE
             THEN Numeral(ToFixed(percentage, ONE, 3), 3, "%")
             ELSE IF percentage <= 10 * ONE
             THEN Numeral(ToFixed(percentage, ONE, 2), 2, "%")
             ELSE Numeral(ToFixed(percentage, ONE, 1), 1, "%")

\* probability: a number of 1/ONE, or NaN
formatProbability(probability) ==
    IF probability.kind = "NaN" THEN Literal("NaN%")
    ELSE LET percentage == probability.val * 100
         IN  IF percentage < ONE \div 1000 THEN Literal("< 0.001%")
             ELSE IF percentage < ONE
             THEN Numeral(ToFixed(percentage, ONE, 3), 3, "%")
             ELSE IF percentage < 10 * ONE
             THEN Numeral(ToFixed(percentage, ONE, 2), 2, "%")
             ELSE Numeral(ToFixed(percentage, ONE, 1), 1, "%")

(* The page: app.js:12-22, 88-110 and 515-583, with the charts of part_000. *)
(* The document itself is not part of the sources: the maxima of the two    *)
(* sliders are the fallbacks of app.js:365 and 372, the inputs start at the *)
(* least values the validator accepts and the credibility banner starts     *)
(* with some text.  Time passes in ticks of TICK_MS milliseconds.           *)

CONSPIRATORS_SLIDER_MAX == 10000
YEARS_SLIDER_MAX == 100

\* the delay of setTimeout in debouncedUpdate: app.js:92
DEBOUNCE_MS == 100
TICK_MS == 5 * 10
DebounceTicks == DEBOUNCE_MS \div TICK_MS

\* the text of an input field that is no numeral (empty, letters)
NoNumeral == [kind |-> "text", val |-> 0]

\* parseInt(text) || 0
ParseIntOrZero(text) == IF text.kind = "string" THEN text.val ELSE 0

\* the value the input handler writes back: app.js:100
ClampToSlider(text, sliderMax) == Min(Max(ParseIntOrZero(text), 0), sliderMax)

NoEdit == [field |-> "none", typed |-> NoNumeral, before |-> 0]
NothingShown ==
    [conspirators |-> 0, years |-> 0, survivalProbability |-> Literal(""),
     exposureProbability |-> Literal(""), expectedTime |-> Literal("")]

\* getCredibilityFromProbability(survivalProb * 100): app.js:127-135
getCredibilityFromProbability(survivalProb) ==
    IF survivalProb.kind = "num" /\ survivalProb.val * 100 < 10 * ONE
    THEN [status |-> "Unlikely", description |-> "highly improbable"]
    ELSE IF survivalProb.kind = "num" /\ survivalProb.val * 100 < 30 * ONE
    THEN [status |-> "Possible", description |-> "some plausibility"]
    ELSE [status |-> "Possible", description |-> "could be feasible"]

\* the banner after updateCalculations, replaced whatever its text
BannerAlwaysReplaced(current, survivalProb) ==
    getCredibilityFromProbability(survivalProb)

\* the banner after updateCalculations: app.js:559-564
Banner(current, survivalProb) ==
    IF current.status # ""
          /\ current.status \notin {"Assessing", "Awaiting response"}
    THEN getCredibilityFromProbability(survivalProb)
    ELSE current

\* debouncedUpdate without clearTimeout
debouncedUpdateNoClear(timers) == Append(timers, 0)

\* debouncedUpdate on the pending timeouts (their ages in ticks): the one of
\* the handle debounceTimer is cleared and a new one set, app.js:88-93
debouncedUpdate(timers) ==
    Append(IF timers = <<>> THEN <<>> ELSE SubSeq(timers, 1, Len(timers) - 1), 0)

\* isCalculating after updateCalculations left by the given path, were it
\* reset at the end of the try block instead of in finally
isCalculatingUnlessCompleted(path) == path # "completed"

\* isCalculating after updateCalculations left by the given path (completed,
\* returned early, threw): the finally block of app.js:580-582
isCalculatingAfter(path) == FALSE

\* HISTORICAL_BENCHMARKS: presets.js:62-90, conspirators and yearsBeforeExposed
HISTORICAL_BENCHMARKS ==
    << [conspirators |-> Num(14), yearsBeforeExposed |-> Quot(3, 2)],
       [conspirators |-> Num(17), yearsBeforeExposed |-> Num(1)],
       [conspirators |-> Num(23), yearsBeforeExposed |-> Num(3)] >>

\* the state of the remote analysis before any query: app.js:140-210
NoAnalysis ==
    [stage |-> "idle",         \* idle, sent (to the function), responded (by it)
     clientFetches |-> 0,      \* history: fetches of the page for the last query
     upstreamFetches |-> 0,    \* history: fetches of the function for the last query
     upstream |-> "none",      \* history: how the last upstream fetch ended
     response |-> [statusCode |-> 0, body |-> "none"],
     results |-> "empty",      \* the panel perplexityResults
     disabled |-> FALSE,       \* the button perplexityBtn
     queries |-> 0]            \* clicks handled, counted up to MaxQueries

\* the loop of generateProbabilityOverTime before any series
NoLoop ==
    [pc |-> "idle",            \* idle, loop (in the for loop), done
     conspirators |-> Num(1), professionType |-> "general",
     maxYears |-> Num(0), step |-> 1, year |-> 0,
     length |-> 0]             \* data.length

\* no invocation of the serverless function yet
NoInvocation ==
    [event |-> [httpMethod |-> "none",
                body |-> [json |-> "none", conspiracyName |-> "absent",
                          description |-> "absent"]],
     apiKey |-> FALSE,
     outcome |-> "none",
     response |-> [statusCode |-> 0, body |-> "none", headers |-> FALSE,
                   fetched |-> FALSE, threw |-> FALSE]]

\* the values kept of a metric: the 100 of performance.js:89-91, scaled down
VALUES_KEPT == 3

MetricNames == {"calculation", "page-load"}

\* new PerformanceMonitor(): this.metrics = {}, performance.js:7-9
NoMetric ==
    [created |-> FALSE, values |-> <<>>, count |-> 0, sum |-> 0,
     min |-> Infinity, max |-> [kind |-> "-Infinity", val |-> 0]]
NewMonitor ==
    [metrics |-> [name \in MetricNames |-> NoMetric],
     recorded |-> [name \in MetricNames |-> <<>>],
     got |-> [null |-> TRUE, name |-> "none", average |-> Num(0), latest |-> 0],
     recordings |-> 0]

NoBar == [kind |-> "none", val |-> 0]

InitialPage ==
    [loaded |-> FALSE,         \* whether DOMContentLoaded has run
     charts |-> FALSE,         \* whether the charts script and Chart.js are loaded
     conspirators |-> MIN_CONSPIRATORS, conspiratorsSlider |-> MIN_CONSPIRATORS,
     yearsActive |-> MIN_YEARS, yearsActiveSlider |-> MIN_YEARS,
     professionType |-> "general",
     credibility |->           \* credibilityLevel and credibilityDescription
         [status |-> "Calculating", description |-> ""],
     debounceTimer |-> <<>>,   \* ages in ticks of the pending debounce timeouts
     isCalculating |-> FALSE,
     chartUpdateDebouncer |-> <<>>,  \* arguments of the pending chart timeout;
                               \* its callback draws the series and is not modelled
     yourConspiracy |-> NoBar, \* the bar 'Your Conspiracy', in percent
     shown |-> NothingShown,   \* the results on display and what they were computed for
     feedback |-> FALSE,       \* whether a message about the inputs is on display
     warned |-> FALSE,         \* whether the last update only warned on the console
     left |-> "none",          \* history: how the last updateCalculations was left
     run |->                   \* history: the banner before and after the last
         [before |-> [status |-> "", description |-> ""],  \* full run, and the
          after |-> [status |-> "", description |-> ""],   \* credibility of its
          math |-> [status |-> "", description |-> ""]],   \* survival probability
     burst |-> 0,              \* history: input events since the last run of a
                               \* debounce timeout, counted up to 2
     served |-> 0,             \* history: the burst the last such run answered
     edit |-> NoEdit]          \* history: the last edit of an input field

----------------------------------------------------------------------------
(* The Map calculationCache and getCachedOrCalculate *)

Keys(cache) == {cache[i].key : i \in DOMAIN cache}
CacheHas(cache, key) == key \in Keys(cache)
CacheGet(cache, key) ==
    cache[CHOOSE i \in DOMAIN cache : cache[i].key = key].value

\* calculationCache.delete(key)
CacheDelete(cache, key) ==
    LET F[i \in 0 .. Len(cache)] ==
            IF i = 0 THEN <<>>
            ELSE IF cache[i].key = key THEN F[i - 1]
            ELSE Append(F[i - 1], cache[i])
    IN  F[Len(cache)]

\* calculationCache.set(key, value)
CacheSet(cache, key, value) ==
    IF CacheHas(cache, key)
    THEN [i \in DOMAIN cache |->
            IF cache[i].key = key THEN [key |-> key, value |-> value]
            ELSE cache[i]]
    ELSE Append(cache, [key |-> key, value |-> value])

\* calculator.js:54-57
EvictIfOverFull(cache) ==
    IF Len(cache) > CACHE_SIZE_LIMIT
    THEN CacheDelete(cache, cache[1].key)
    ELSE cache

EvictIfFull(cache) ==
    IF Len(cache) >= CACHE_SIZE_LIMIT
    THEN CacheDelete(cache, cache[1].key)
    ELSE cache

\* a hit that refreshes the entry's position, as an LRU cache would
getCachedOrCalculateLRU(cache, key, fresh) ==
    IF CacheHas(cache, key)
    THEN [cache |-> CacheSet(CacheDelete(cache, key), key, CacheGet(cache, key)),
          result |-> CacheGet(cache, key), hit |-> TRUE]
    ELSE [cache |-> CacheSet(EvictIfFull(cache), key, fresh),
          result |-> fresh, hit |-> FALSE]

getCachedOrCalculate(cache, key, fresh) ==
    IF CacheHas(cache, key)
    THEN [cache |-> cache, result |-> CacheGet(cache, key), hit |-> TRUE]
    ELSE [cache |-> CacheSet(EvictIfFull(cache), key, fresh),
          result |-> fresh, hit |-> FALSE]

----------------------------------------------------------------------------
(* The estimator operations.  Each gives the outcome of one call on a cache: *)
(* the cache afterwards, the value returned, whether validation passed,    *)
(* whether the call threw, whether it was a cache hit.                     *)

Outcome(got, isValid) ==
    [cache |-> got.cache, result |-> got.result, hit |-> got.hit,
     valid |-> isValid, threw |-> FALSE, error |-> ""]

\* a catch block that also empties the Map
CaughtCleared(cache, default, message) ==
    [cache |-> <<>>, result |-> default, hit |-> FALSE,
     valid |-> FALSE, threw |-> FALSE, error |-> message]

\* the catch block: the error is logged and a default is returned
Caught(cache, default, message) ==
    [cache |-> cache, result |-> default, hit |-> FALSE,
     valid |-> FALSE, threw |-> FALSE, error |-> message]

calculateSurvivalProbability(cache, conspirators, years, professionType) ==
    IF validateInputs(conspirators, years, professionType) # "ok"
    THEN Caught(cache, RNum(0),
                validateInputs(conspirators, years, professionType))
    ELSE Outcome(getCachedOrCalculate(cache,
                    createCacheKey(conspirators, years, professionType, "survival"),
                    SurvivalCalc(conspirators, years, professionType)), TRUE)

calculateExposureProbability(cache, conspirators, years, professionType) ==
    LET s == calculateSurvivalProbability(cache, conspirators, years, professionType)
    IN  [s EXCEPT !.result = ExposureFromSurvival(s.result)]

calculateExpectedTimeUntilExposure(cache, conspirators, professionType) ==
    IF validateInputs(conspirators, Num(0), professionType) # "ok"
    THEN Caught(cache, RInfinity,
                validateInputs(conspirators, Num(0), professionType))
    ELSE Outcome(getCachedOrCalculate(cache,
                    createCacheKey(conspirators, Num(0), professionType, "expected"),
                    ExpectedCalc(conspirators, professionType)), TRUE)

generateProbabilityOverTime(cache, conspirators, professionType, maxYears) ==
    IF validateInputs(conspirators, Num(0), professionType) # "ok"
    THEN Caught(cache, FallbackSeries,
                validateInputs(conspirators, Num(0), professionType))
    ELSE Outcome(getCachedOrCalculate(cache,
                    createCacheKey(conspirators, maxYears, professionType, "series"),
                    SeriesCalc(conspirators, professionType, maxYears)), TRUE)

----------------------------------------------------------------------------
(* State machine: one action per estimator call *)

NoArgs == [conspirators |-> Num(0), years |-> Num(0),
           professionType |-> "", maxYears |-> Num(0)]

Args(conspirators, years, professionType, maxYears) ==
    [conspirators |-> conspirators, years |-> years,
     professionType |-> professionType, maxYears |-> maxYears]

\* insertion ranks after a call: the keys that stay keep their order, a new
\* key is the most recent
NextRanks(ranks, old, new) ==
    LET stay == Keys(old) \cap Keys(new)
    IN  [k \in Keys(new) |->
            IF k \in stay
            THEN Cardinality({j \in stay : ranks[j] <= ranks[k]})
            ELSE Cardinality(stay) + 1]

Init ==
    /\ calculationCache = <<>>
    /\ insertedAt = <<>>
    /\ evicted = {}
    /\ op = "none"
    /\ args = NoArgs
    /\ valid = FALSE
    /\ threw = FALSE
    /\ result = RNone
    /\ inner = RNone
    /\ hit = FALSE
    /\ error = ""
    /\ formatted = [fn |-> "none", input |-> Num(0), text |-> Literal("")]
    /\ ui = InitialPage
    /\ remote = NoAnalysis
    /\ loop = NoLoop
    /\ invocation = NoInvocation
    /\ monitor = NewMonitor
    /\ calls = 0

Finish(opName, a, out, innerValue) ==
    /\ calculationCache' = out.cache
    /\ insertedAt' = NextRanks(insertedAt, calculationCache, out.cache)
    /\ evicted' = Keys(calculationCache) \ Keys(out.cache)
    /\ op' = opName
    /\ args' = a
    /\ valid' = out.valid
    /\ threw' = out.threw
    /\ result' = out.result
    /\ inner' = innerValue
    /\ hit' = out.hit
    /\ error' = out.error
    /\ calls' = Min(calls + 1, MaxCalls)
    /\ UNCHANGED <<formatted, ui, remote, loop, invocation, monitor>>

Survival(N, t, c) ==
    Finish("survival", Args(N, t, c, Num(0)),
           calculateSurvivalProbability(calculationCache, N, t, c), RNone)

Exposure(N, t, c) ==
    Finish("exposure", Args(N, t, c, Num(0)),
           calculateExposureProbability(calculationCache, N, t, c),
           calculateSurvivalProbability(calculationCache, N, t, c).result)

ExpectedTime(N, c) ==
    Finish("expected", Args(N, Num(0), c, Num(0)),
           calculateExpectedTimeUntilExposure(calculationCache, N, c), RNone)

Series(N, c, m) ==
    Finish("series", Args(N, Num(0), c, m),
           generateProbabilityOverTime(calculationCache, N, c, m), RNone)

(* Spec: any sequence of calls, arguments from a small set *)

SeqConspirators == {Num(0), Num(1000), Num(MAX_CONSPIRATORS)}
SeqYears == {Num(0), Num(5), Num(1000)}
SeqProfessions == {"general"}
SeqMaxYears == {Num(3), Str(3)}

CallSurvival ==
    \E N \in SeqConspirators, t \in SeqYears, c \in SeqProfessions :
        Survival(N, t, c)
CallExposure ==
    \E N \in SeqConspirators, t \in SeqYears, c \in SeqProfessions :
        Exposure(N, t, c)
CallExpectedTime ==
    \E N \in SeqConspirators, c \in SeqProfessions : ExpectedTime(N, c)
CallSeries ==
    \E N \in SeqConspirators, c \in SeqProfessions, m \in SeqMaxYears :
        Series(N, c, m)

Next == CallSurvival \/ CallExposure \/ CallExpectedTime \/ CallSeries

Spec == Init /\ [][Next]_vars

(* SpecFn: up to MaxCalls calls from the empty cache, arguments of every kind *)

FnConspirators ==
    {Num(0), Num(1), Num(1000), Num(MAX_CONSPIRATORS), Num(MAX_CONSPIRATORS + 1),
     NaN, Infinity, Str(1000)}
FnYears ==
    {Num(-1), Num(0), Num(5), Num(500), Num(1000), Num(1001), NaN, Infinity, Str(5)}
FnProfessions == {"general", "intelligence", "unknown"}
FnMaxYears == {Num(20), Num(60), NaN}

FnSurvival ==
    /\ calls < MaxCalls
    /\ \E N \in FnConspirators, t \in FnYears, c \in FnProfessions :
          Survival(N, t, c)
FnExposure ==
    /\ calls < MaxCalls
    /\ \E N \in FnConspirators, t \in FnYears, c \in FnProfessions :
          Exposure(N, t, c)
FnExpectedTime ==
    /\ calls < MaxCalls
    /\ \E N \in FnConspirators, c \in FnProfessions : ExpectedTime(N, c)
FnSeries ==
    /\ calls < MaxCalls
    /\ \E N \in FnConspirators, c \in FnProfessions, m \in FnMaxYears :
          Series(N, c, m)

NextFn == FnSurvival \/ FnExposure \/ FnExpectedTime \/ FnSeries

SpecFn == Init /\ [][NextFn]_vars

(* SpecSeries: up to MaxCalls series from the empty cache, maxYears of every kind *)

SerConspirators ==
    {Num(0), Num(1), Num(1000), Num(100000), Num(MAX_CONSPIRATORS), NaN}
SerProfessions == {"general", "intelligence"}
SerMaxYears ==
    {Num(-5), Num(0), Num(7), Num(10), Num(11), Num(20), Num(50), Num(51),
     Num(55), Num(100), Num(102), Num(200), Num(205), Num(500), NaN, Str(55)}

SerSeries ==
    /\ calls < MaxCalls
    /\ \E N \in SerConspirators, c \in SerProfessions, m \in SerMaxYears :
          Series(N, c, m)

NextSeries == SerSeries

SpecSeries == Init /\ [][NextSeries]_vars

----------------------------------------------------------------------------
(* SpecFormat: the two formatters on durations and probabilities of every range *)

\* durations: 0 to 0.99 years by hundredths, 1 to 1.96 years by 0.04, some
\* longer ones, NaN and Infinity
DurationInputs ==
    {Num(i * (YEAR_ONE \div 100)) : i \in 0 .. 99}
        \cup {Num(YEAR_ONE + i * (YEAR_ONE \div 25)) : i \in 0 .. 24}
        \cup {Num(2 * YEAR_ONE), Num(5 * (YEAR_ONE \div 2)),
              Num(73 * (YEAR_ONE \div 10)), Num(2310 * YEAR_ONE), NaN, Infinity}

\* probabilities: 0 to 0.000014, 0.01% to 1.004%, 1% to 15%, 20% to 100%, NaN;
\* none lies halfway between two numerals of its range, where toFixed rounds
\* the binary value of the product
ProbabilityInputs ==
    {Num(i) : i \in 0 .. 14}
        \cup {Num(i * (ONE \div 100000)) : i \in 10 .. 1004}
        \cup {Num(i * (ONE \div 1000)) : i \in 10 .. 150}
        \cup {Num(i * (ONE \div 10)) : i \in 2 .. 10}
        \cup {NaN}

FormatDuration ==
    /\ \E years \in DurationInputs :
          formatted' = [fn |-> "formatTimeDuration", input |-> years,
                        text |-> formatTimeDuration(years)]
    /\ UNCHANGED <<calculationCache, insertedAt, evicted, op, args, valid,
                   threw, result, inner, hit, error, ui, remote, loop,
                   invocation, monitor, calls>>

FormatProbability ==
    /\ \E probability \in ProbabilityInputs :
          formatted' = [fn |-> "formatProbability", input |-> probability,
                        text |-> formatProbability(probability)]
    /\ UNCHANGED <<calculationCache, insertedAt, evicted, op, args, valid,
                   threw, result, inner, hit, error, ui, remote, loop,
                   invocation, monitor, calls>>

NextFormat == FormatDuration \/ FormatProbability

SpecFormat == Init /\ [][NextFormat]_vars

(* Inputs of the page handlers *)

TypedConspirators == {Str(0), Str(20000000), NoNumeral}
TypedYears == {Str(-1), Str(2000)}
SlidConspirators == {1000}
SlidYears == {5}

(* The page and its handlers *)

UNCHANGED_ESTIMATOR ==
    UNCHANGED <<calculationCache, insertedAt, evicted, op, args, valid, threw,
                result, inner, hit, error, formatted, calls>>

\* one call of an estimator operation
Call(fn, conspirators, years, professionType, maxYears) ==
    [fn |-> fn, conspirators |-> conspirators, years |-> years,
     professionType |-> professionType, maxYears |-> maxYears]

Apply(cache, call) ==
    IF call.fn = "survival"
    THEN calculateSurvivalProbability(cache, call.conspirators, call.years,
                                      call.professionType)
    ELSE IF call.fn = "exposure"
    THEN calculateExposureProbability(cache, call.conspirators, call.years,
                                      call.professionType)
    ELSE IF call.fn = "expected"
    THEN calculateExpectedTimeUntilExposure(cache, call.conspirators,
                                            call.professionType)
    ELSE generateProbabilityOverTime(cache, call.conspirators,
                                     call.professionType, call.maxYears)

\* the element of a set of one element: what an expression gives, taken once
The(set) == CHOOSE value \in set : TRUE

\* a sequence of calls, one after the other on the same cache: the cache and
\* the insertion ranks afterwards and the outcome of each call
RECURSIVE RunCalls(_, _, _)
RunCalls(cache, ranks, todo) ==
    IF todo = <<>> THEN [cache |-> cache, ranks |-> ranks, outcomes |-> <<>>]
    ELSE The({The({[rest EXCEPT !.outcomes = <<out>> \o rest.outcomes] :
                      rest \in {RunCalls(out.cache,
                                         NextRanks(ranks, cache, out.cache),
                                         Tail(todo))}}) :
                 out \in {Apply(cache, Head(todo))}})

\* the estimator after a handler made the calls todo with the result run, the
\* last call recorded
Recorded(todo, run) ==
    LET last == run.outcomes[Len(todo)]
        call == todo[Len(todo)]
    IN  /\ calculationCache' = run.cache
        /\ insertedAt' = run.ranks
        /\ evicted' = Keys(calculationCache) \ Keys(run.cache)
        /\ op' = call.fn
        /\ args' = Args(call.conspirators, call.years, call.professionType,
                        call.maxYears)
        /\ valid' = last.valid
        /\ threw' = last.threw
        /\ result' = last.result
        /\ inner' = RNone
        /\ hit' = last.hit
        /\ error' = last.error
        /\ UNCHANGED calls

\* the calls of updateComparisonChart(conspirators, years): the benchmarks,
\* then the current conspiracy under 'government'; part_000:212-225
ComparisonCalls(conspirators, years) ==
    [i \in DOMAIN HISTORICAL_BENCHMARKS |->
        Call("survival", HISTORICAL_BENCHMARKS[i].conspirators,
             HISTORICAL_BENCHMARKS[i].yearsBeforeExposed, "government", Num(0))]
        \o <<Call("survival", conspirators, years, "government", Num(0))>>

\* the bar of a probability: probability * 100
Bar(probability) ==
    IF probability.kind = "num"
    THEN [kind |-> "num", val |-> probability.val * 100]
    ELSE [kind |-> probability.kind, val |-> 0]

\* the charts script runs with Chart.js present: initializeCharts(),
\* app.js:616 and part_000:304-314
initializeCharts ==
    /\ ~ui.loaded
    /\ ~ui.charts
    /\ \E todo \in {ComparisonCalls(Num(100), Num(10))} :
       \E run \in {RunCalls(calculationCache, insertedAt, todo)} :
           /\ Recorded(todo, run)
           /\ ui' = [ui EXCEPT
                       !.charts = TRUE,
                       !.chartUpdateDebouncer =
                           <<[conspirators |-> 100,
                              professionType |-> "government", years |-> 10]>>,
                       !.yourConspiracy =
                           Bar(run.outcomes[Len(todo)].result)]
    /\ UNCHANGED <<formatted, remote, loop, invocation, monitor>>

\* no credibility for the caller to write
NothingWritten == [status |-> "", description |-> ""]

\* the page after updateCredibilityStatus of the caller, if it has one
Written(page, credibility) ==
    IF credibility = NothingWritten THEN page
    ELSE [page EXCEPT !.credibility = credibility]

\* the body of updateCalculations on a page: app.js:515-583.  chartThrows
\* tells whether new Chart(...) of the comparison chart throws; written is
\* the credibility the caller writes once updateCalculations has returned.
UpdateBody(page, chartThrows, written) ==
    IF page.isCalculating
    THEN /\ ui' = Written([page EXCEPT !.left = "skipped"], written)
         /\ UNCHANGED_ESTIMATOR
    ELSE IF page.conspirators < 1 \/ page.yearsActive < 0
    THEN /\ ui' = Written([page EXCEPT
                              !.warned = TRUE,
                              !.left = "returned",
                              !.isCalculating = isCalculatingAfter("returned")],
                         written)
         /\ UNCHANGED_ESTIMATOR
    ELSE LET N == Num(page.conspirators)
             t == Num(page.yearsActive)
             c == page.professionType
             todo == <<Call("survival", N, t, c, Num(0)),
                       Call("exposure", N, t, c, Num(0)),
                       Call("expected", N, Num(0), c, Num(0))>>
                     \o (IF page.charts
                         \* updateComparisonChart(conspirators, professionType)
                         THEN ComparisonCalls(N, NoNumeral)
                         ELSE <<>>)
         IN  \E run \in {RunCalls(calculationCache, insertedAt, todo)} :
             LET survival == run.outcomes[1].result
                 exposure == run.outcomes[2].result
                 expected == run.outcomes[3].result
                 path == IF page.charts /\ chartThrows
                         THEN "threw" ELSE "completed"
             IN
             /\ Recorded(todo, run)
             /\ formatted' = [fn |-> "formatTimeDuration", input |-> expected,
                              text |-> formatTimeDuration(expected)]
             /\ ui' = Written([page EXCEPT
                   !.warned = FALSE,
                   !.left = path,
                   !.isCalculating = isCalculatingAfter(path),
                   !.shown =
                       [conspirators |-> page.conspirators,
                        years |-> page.yearsActive,
                        survivalProbability |-> formatProbability(survival),
                        exposureProbability |-> formatProbability(exposure),
                        expectedTime |-> formatTimeDuration(expected)],
                   !.credibility = Banner(page.credibility, survival),
                   !.run = [before |-> page.credibility,
                            after |-> Banner(page.credibility, survival),
                            math |-> getCredibilityFromProbability(survival)],
                   !.chartUpdateDebouncer =
                       IF page.charts
                       THEN <<[conspirators |-> page.conspirators,
                               professionType |-> c,
                               years |-> page.yearsActive]>>
                       ELSE page.chartUpdateDebouncer,
                   !.yourConspiracy =
                       IF page.charts /\ ~chartThrows
                       THEN Bar(run.outcomes[Len(todo)].result)
                       ELSE page.yourConspiracy], written)

\* whether new Chart(...) can throw: only where Chart.js is loaded
ChartOutcomes == IF ui.charts THEN BOOLEAN ELSE {FALSE}

\* document.addEventListener('DOMContentLoaded', ...): app.js:12-22
DOMContentLoaded ==
    /\ ~ui.loaded
    /\ \E chartThrows \in ChartOutcomes :
          UpdateBody([ui EXCEPT !.loaded = TRUE], chartThrows, NothingWritten)
    /\ UNCHANGED <<remote, loop, invocation, monitor>>

\* input.addEventListener('input', ...) of the conspirators field: app.js:99-104
ConspiratorsInput ==
    /\ ui.loaded
    /\ \E text \in TypedConspirators :
          LET value == ClampToSlider(text, CONSPIRATORS_SLIDER_MAX)
          IN  ui' = [ui EXCEPT !.conspiratorsSlider = value,
                               !.conspirators = value,
                               !.debounceTimer = debouncedUpdate(ui.debounceTimer),
                               !.burst = Min(ui.burst + 1, 2),
                               !.edit = [field |-> "conspirators", typed |-> text,
                                         before |-> ui.conspirators]]
    /\ UNCHANGED_ESTIMATOR
    /\ UNCHANGED <<remote, loop, invocation, monitor>>

\* input.addEventListener('input', ...) of the years field: app.js:99-104
YearsInput ==
    /\ ui.loaded
    /\ \E text \in TypedYears :
          LET value == ClampToSlider(text, YEARS_SLIDER_MAX)
          IN  ui' = [ui EXCEPT !.yearsActiveSlider = value,
                               !.yearsActive = value,
                               !.debounceTimer = debouncedUpdate(ui.debounceTimer),
                               !.burst = Min(ui.burst + 1, 2),
                               !.edit = [field |-> "years", typed |-> text,
                                         before |-> ui.yearsActive]]
    /\ UNCHANGED_ESTIMATOR
    /\ UNCHANGED <<remote, loop, invocation, monitor>>

\* slider.addEventListener('input', ...): app.js:106-109
ConspiratorsSlider ==
    /\ ui.loaded
    /\ \E value \in SlidConspirators :
          ui' = [ui EXCEPT !.conspiratorsSlider = value,
                           !.conspirators = value,
                           !.debounceTimer = debouncedUpdate(ui.debounceTimer),
                           !.burst = Min(ui.burst + 1, 2),
                           !.edit = NoEdit]
    /\ UNCHANGED_ESTIMATOR
    /\ UNCHANGED <<remote, loop, invocation, monitor>>

YearsSlider ==
    /\ ui.loaded
    /\ \E value \in SlidYears :
          ui' = [ui EXCEPT !.yearsActiveSlider = value,
                           !.yearsActive = value,
                           !.debounceTimer = debouncedUpdate(ui.debounceTimer),
                           !.burst = Min(ui.burst + 1, 2),
                           !.edit = NoEdit]
    /\ UNCHANGED_ESTIMATOR
    /\ UNCHANGED <<remote, loop, invocation, monitor>>

\* TICK_MS milliseconds pass while a debounce timeout is pending and none is due
tick ==
    /\ ui.debounceTimer # <<>>
    /\ \A i \in DOMAIN ui.debounceTimer : ui.debounceTimer[i] < DebounceTicks
    /\ ui' = [ui EXCEPT !.debounceTimer =
                            [i \in DOMAIN ui.debounceTimer |->
                                ui.debounceTimer[i] + 1]]
    /\ UNCHANGED_ESTIMATOR
    /\ UNCHANGED <<remote, loop, invocation, monitor>>

\* a sequence without its i-th element
Without(seq, i) == SubSeq(seq, 1, i - 1) \o SubSeq(seq, i + 1, Len(seq))

\* a debounce timeout is due and its callback runs: app.js:90-92
updateCalculations ==
    /\ \E i \in DOMAIN ui.debounceTimer, chartThrows \in ChartOutcomes :
          /\ ui.debounceTimer[i] >= DebounceTicks
          /\ UpdateBody([ui EXCEPT !.debounceTimer = Without(ui.debounceTimer, i),
                                   !.served = ui.burst, !.burst = 0],
                        chartThrows, NothingWritten)
    /\ UNCHANGED <<remote, loop, invocation, monitor>>

(* The serverless function exports.handler: part_003:4-190.  An event has a *)
(* method and a body; a body is text that is no JSON, the JSON text null,   *)
(* or the text of a JSON object whose two fields are each absent (or        *)
(* falsy), a truthy value that is no string, a string within its length     *)
(* limit or a longer string.                                                *)

Methods == {"OPTIONS", "GET", "PUT", "POST"}
FieldValues == {"absent", "number", "text", "long"}
Bodies ==
    [json : {"notJson", "null"}, conspiracyName : {"absent"},
     description : {"absent"}]
        \cup [json : {"object"}, conspiracyName : FieldValues,
              description : FieldValues]
Credibilities == {"Unlikely", "Possible", "Uncertain"}
UpstreamStatuses == {"401", "429", "500", "503"}
UpstreamErrors == {"AbortError", "ENOTFOUND", "ECONNRESET"}
Outcomes ==
    Credibilities \cup {"badFormat"} \cup UpstreamStatuses \cup UpstreamErrors

\* what an invocation gives: the response (status code, body, whether it has
\* the CORS headers), whether the upstream API was fetched, whether the
\* invocation threw instead of returning
Returned(statusCode, body, fetched) ==
    [statusCode |-> statusCode, body |-> body, headers |-> TRUE,
     fetched |-> fetched, threw |-> FALSE]
Thrown ==
    [statusCode |-> 0, body |-> "none", headers |-> FALSE,
     fetched |-> FALSE, threw |-> TRUE]

\* exports.handler(event) with the key configured or not, the upstream fetch
\* ending as outcome
exportsHandler(event, apiKey, outcome) ==
    IF event.httpMethod = "OPTIONS" THEN Returned(200, "", FALSE)
    ELSE IF event.httpMethod # "POST" THEN Returned(405, "error", FALSE)
    ELSE IF event.body.json = "notJson" THEN Returned(400, "error", FALSE)
    \* const { conspiracyName, description } = body, body being null
    ELSE IF event.body.json = "null" THEN Thrown
    ELSE IF event.body.conspiracyName = "absent"
               \/ event.body.description = "absent"
    THEN Returned(400, "error", FALSE)
    ELSE IF event.body.conspiracyName # "text" THEN Returned(400, "error", FALSE)
    ELSE IF event.body.description # "text" THEN Returned(400, "error", FALSE)
    ELSE IF ~apiKey THEN Returned(500, "error", FALSE)
    ELSE IF outcome \in Credibilities THEN Returned(200, outcome, TRUE)
    ELSE IF outcome \in UpstreamStatuses THEN Returned(200, "error", TRUE)
    ELSE Returned(500, "error", TRUE)

\* the request of queryPerplexity: part_001:270-275
PageEvent ==
    [httpMethod |-> "POST",
     body |-> [json |-> "object", conspiracyName |-> "text",
               description |-> "text"]]

(* The remote analysis of the page *)

MaxQueries == 3

Fields == {"", "text"}

\* a click on the button: handlePerplexityQuery up to its await, app.js:140-173,
\* and queryPerplexity up to its fetch, part_001:267-275
handlePerplexityQuery ==
    /\ ui.loaded
    /\ UNCHANGED <<loop, invocation, monitor>>
    /\ ~remote.disabled
    /\ remote.stage = "idle"
    /\ remote.queries < MaxQueries
    /\ \E name \in Fields, desc \in Fields :
          IF name = "" \/ desc = ""
          THEN /\ remote' = [remote EXCEPT !.results = "error",
                                           !.queries = @ + 1]
               /\ UNCHANGED ui
          ELSE /\ remote' = [remote EXCEPT
                                !.stage = "sent",
                                !.clientFetches = 1,
                                !.upstreamFetches = 0,
                                !.upstream = "none",
                                !.response = [statusCode |-> 0, body |-> "none"],
                                !.results = "loading",
                                !.disabled = TRUE,
                                !.queries = @ + 1]
               /\ ui' = [ui EXCEPT !.credibility =
                                      [status |-> "Awaiting response",
                                       description |-> "Contacting"]]
    /\ UNCHANGED_ESTIMATOR

\* the function answers without reaching the service: no API key, part_003:69-79
handlerWithoutKey ==
    /\ remote.stage = "sent"
    /\ UNCHANGED <<loop, invocation, monitor>>
    /\ LET response == exportsHandler(PageEvent, FALSE, "badFormat")
       IN  remote' = [remote EXCEPT
                        !.stage = "responded",
                        !.response = [statusCode |-> response.statusCode,
                                      body |-> response.body]]
    /\ UNCHANGED ui
    /\ UNCHANGED_ESTIMATOR

\* the function fetches the service once and answers: part_003:113-190
handler ==
    /\ remote.stage = "sent"
    /\ UNCHANGED <<loop, invocation, monitor>>
    /\ \E outcome \in Outcomes :
          LET response == exportsHandler(PageEvent, TRUE, outcome)
          IN  remote' = [remote EXCEPT
                           !.stage = "responded",
                           !.upstreamFetches = @ + 1,
                           !.upstream = outcome,
                           !.response = [statusCode |-> response.statusCode,
                                         body |-> response.body]]
    /\ UNCHANGED ui
    /\ UNCHANGED_ESTIMATOR

\* the button after the handler ended by an error, were it enabled at the end
\* of the try block instead of in finally
disabledUnlessAnswered(ended) == ended = "error"

\* the button after the handler ended (answered, error): the finally block of
\* app.js:206-209
disabledAfter(ended) == FALSE

\* the fetch of the page fails (network error): queryPerplexity rethrows,
\* part_001:289-292, and handlePerplexityQuery shows the error, app.js:203-209
fetchRejected ==
    /\ remote.stage = "sent"
    /\ UNCHANGED <<loop, invocation, monitor>>
    /\ remote' = [remote EXCEPT !.stage = "idle",
                                !.upstream = "unreached",
                                !.results = "error",
                                !.disabled = disabledAfter("error")]
    /\ ui' = [ui EXCEPT !.credibility =
                           [status |-> "Error",
                            description |-> "Unable to complete analysis"]]
    /\ UNCHANGED_ESTIMATOR

\* analyzePerplexityResponse(answer): app.js:393-426
analyzePerplexityResponse(answer) ==
    IF answer \in Credibilities
    THEN [status |-> answer, description |-> "analysis"]
    ELSE [status |-> "Uncertain", description |-> "analysis"]

\* the response of the function arrives: part_001:277-288 and app.js:174-209.
\* The answer is taken to hold no scale estimates, so
\* extractAndApplyScaleEstimates changes no input before its updateCalculations;
\* the credibility of the answer is written after it.
responseArrives ==
    /\ remote.stage = "responded"
    /\ UNCHANGED <<loop, invocation, monitor>>
    /\ IF remote.response.statusCode \notin 200 .. 299
       THEN /\ remote' = [remote EXCEPT !.stage = "idle",
                                        !.results = "error",
                                        !.disabled = disabledAfter("error")]
            /\ ui' = [ui EXCEPT !.credibility =
                                   [status |-> "Error",
                                    description |-> "Unable to complete analysis"]]
            /\ UNCHANGED_ESTIMATOR
       ELSE /\ remote' = [remote EXCEPT
                             !.stage = "idle",
                             !.results = IF remote.response.body \in Credibilities
                                         THEN "analysis"
                                         ELSE "No analysis received.",
                             !.disabled = disabledAfter("answered")]
            /\ \E chartThrows \in ChartOutcomes :
                  UpdateBody(ui, chartThrows,
                             analyzePerplexityResponse(remote.response.body))

(* SpecUi: edits of the two inputs, moves of the two sliders, the debounce timer *)

NextUi ==
    \/ DOMContentLoaded
    \/ ConspiratorsInput
    \/ YearsInput
    \/ ConspiratorsSlider
    \/ YearsSlider
    \/ tick
    \/ updateCalculations

SpecUi == Init /\ [][NextUi]_vars

(* SpecDebounce: moves of a slider and edits of an input as time passes *)

NextDebounce ==
    \/ DOMContentLoaded
    \/ ConspiratorsSlider
    \/ YearsInput
    \/ tick
    \/ updateCalculations

SpecDebounce == Init /\ [][NextDebounce]_vars

(* SpecCharts: the page with Chart.js loaded or not, an input and a slider *)

NextCharts ==
    \/ initializeCharts
    \/ DOMContentLoaded
    \/ ConspiratorsInput
    \/ YearsSlider
    \/ tick
    \/ updateCalculations

SpecCharts == Init /\ [][NextCharts]_vars

(* SpecRemote: queries of the remote analysis, answered or failing in every way *)

NextRemote ==
    \/ DOMContentLoaded
    \/ handlePerplexityQuery
    \/ handlerWithoutKey
    \/ handler
    \/ fetchRejected
    \/ responseArrives

SpecRemote == Init /\ [][NextRemote]_vars

(* SpecFlight: queries of the remote analysis while a slider is moved *)

NextFlight ==
    \/ DOMContentLoaded
    \/ ConspiratorsSlider
    \/ tick
    \/ updateCalculations
    \/ handlePerplexityQuery
    \/ handler
    \/ fetchRejected
    \/ responseArrives

SpecFlight == Init /\ [][NextFlight]_vars

(* SpecHandler: invocations of the serverless function with events of every kind *)

exportsHandlerInvoked ==
    /\ \E event \in [httpMethod : Methods, body : Bodies],
          apiKey \in BOOLEAN, outcome \in Outcomes :
          invocation' = [event |-> event, apiKey |-> apiKey,
                         outcome |-> outcome,
                         response |-> exportsHandler(event, apiKey, outcome)]
    /\ UNCHANGED <<ui, remote, loop, monitor>>
    /\ UNCHANGED_ESTIMATOR

NextHandler == exportsHandlerInvoked

SpecHandler == Init /\ [][NextHandler]_vars

(* SpecLoop: the for loop of generateProbabilityOverTime, one iteration a step *)

\* the loop is left without the step that exceeds this year
MaxLoopYear == 40000

LoopConspirators == {Num(1), Num(2), Num(1000), Num(MAX_CONSPIRATORS)}
LoopProfessions == {"intelligence", "general"}
LoopMaxYears ==
    {Num(-5), Num(0), Num(20), Num(60), Num(150), Num(2000), Num(1000000),
     Infinity, NaN}

\* never leaving the loop early
BreakNever(probability, year) == FALSE

\* if (probability < 0.01 && year > 10) break: calculator.js:190
Break(probability, year) ==
    JsLt(probability, Num(ONE \div 100)) /\ year > NEGLIGIBLE_AFTER_YEAR

\* the calculation of the series starts: calculator.js:161-172
seriesStart ==
    /\ loop.pc # "loop"
    /\ \E N \in LoopConspirators, c \in LoopProfessions, m \in LoopMaxYears :
          /\ validateInputs(N, Num(0), c) = "ok"
          /\ loop' = [pc |-> "loop", conspirators |-> N, professionType |-> c,
                      maxYears |-> m, step |-> StepFor(m), year |-> 0,
                      length |-> 0]
    /\ UNCHANGED <<ui, remote, invocation, monitor>>
    /\ UNCHANGED_ESTIMATOR

\* the test of the loop and one pass of its body: calculator.js:172-191
seriesIterate ==
    /\ loop.pc = "loop"
    /\ loop.year <= MaxLoopYear
    /\ IF ~JsLe(Num(loop.year), loop.maxYears)
       THEN loop' = [loop EXCEPT !.pc = "done"]
       ELSE LET exponent == Exponent(LEAK_RATES[loop.professionType],
                                     loop.conspirators, Num(loop.year))
                probability == PointProbability(exponent)
            IN  loop' = [loop EXCEPT
                    !.length = @ + 1,
                    !.pc = IF Break(probability, loop.year)
                           THEN "done" ELSE "loop",
                    !.year = IF Break(probability, loop.year)
                             THEN loop.year ELSE loop.year + loop.step]
    /\ UNCHANGED <<ui, remote, invocation, monitor>>
    /\ UNCHANGED_ESTIMATOR

NextLoop == seriesStart \/ seriesIterate

\* the shape of a step of the loop, whatever it computes: within the loop the
\* steps of this shape are those of seriesIterate
seriesIterates ==
    /\ loop.pc = "loop"
    /\ loop.year <= MaxLoopYear
    /\ \E pc \in {"loop", "done"}, pushed \in {0, 1}, advanced \in {0, 1} :
          loop' = [loop EXCEPT !.pc = pc, !.length = @ + pushed,
                               !.year = @ + advanced * loop.step]

\* the interpreter runs the loop on: a step of it is taken while one is due
SpecLoop == Init /\ [][NextLoop]_vars /\ WF_loop(seriesIterates)

(* SpecMetrics: recordings and readings of the metrics of PerformanceMonitor *)

MaxRecordings == 5

MetricValues == {1, 5}

\* the first VALUES_KEPT values instead of the last
KeptFirst(values) ==
    IF Len(values) > VALUES_KEPT THEN SubSeq(values, 1, VALUES_KEPT) ELSE values

\* if (metric.values.length > 100) metric.values = metric.values.slice(-100)
Kept(values) ==
    IF Len(values) > VALUES_KEPT
    THEN SubSeq(values, Len(values) - VALUES_KEPT + 1, Len(values))
    ELSE values

\* this.metrics[name] after recordMetric(name, value): performance.js:68-97
recordMetric(metrics, name, value) ==
    LET metric ==
            IF metrics[name].created THEN metrics[name]
            ELSE [created |-> TRUE, values |-> <<>>, count |-> 0, sum |-> 0,
                  min |-> Infinity, max |-> [kind |-> "-Infinity", val |-> 0]]
    IN  [metrics EXCEPT ![name] =
            [created |-> TRUE,
             values |-> Kept(Append(metric.values, value)),
             count |-> metric.count + 1,
             sum |-> metric.sum + value,
             min |-> IF metric.min.kind = "num"
                     THEN Num(Min(metric.min.val, value)) ELSE Num(value),
             max |-> IF metric.max.kind = "num"
                     THEN Num(Max(metric.max.val, value)) ELSE Num(value)]]

\* getMetric(name): performance.js:123-133
getMetric(metrics, name) ==
    IF ~metrics[name].created \/ metrics[name].count = 0
    THEN [null |-> TRUE, name |-> name, average |-> Num(0), latest |-> 0]
    ELSE [null |-> FALSE, name |-> name,
          average |-> Quot(metrics[name].sum, metrics[name].count),
          latest |-> metrics[name].values[Len(metrics[name].values)]]

RecordMetric ==
    /\ monitor.recordings < MaxRecordings
    /\ \E name \in MetricNames, value \in MetricValues :
          monitor' = [monitor EXCEPT
                         !.metrics = recordMetric(monitor.metrics, name, value),
                         !.recorded[name] = Append(monitor.recorded[name], value),
                         !.recordings = @ + 1]
    /\ UNCHANGED <<ui, remote, loop, invocation>>
    /\ UNCHANGED_ESTIMATOR

GetMetric ==
    /\ \E name \in MetricNames :
          monitor' = [monitor EXCEPT !.got = getMetric(monitor.metrics, name)]
    /\ UNCHANGED <<ui, remote, loop, invocation>>
    /\ UNCHANGED_ESTIMATOR

NextMetrics == RecordMetric \/ GetMetric

SpecMetrics == Init /\ [][NextMetrics]_vars

(* SpecHalf: survival at the expected time, up to MaxCalls times from the empty cache *)

HalfConspirators ==
    {Num(1), Num(2), Num(3), Num(4), Num(5), Num(7), Num(10), Num(20), Num(50),
     Num(100), Num(231), Num(693), Num(1000), Num(2310), Num(10000),
     Num(100000), Num(1000000), Num(5000000), Num(MAX_CONSPIRATORS - 1),
     Num(MAX_CONSPIRATORS)}

\* calculateSurvivalProbability(N, calculateExpectedTimeUntilExposure(N, c), c)
SurvivalAtExpectedTime ==
    /\ calls < MaxCalls
    /\ \E N \in HalfConspirators, c \in DOMAIN LEAK_RATES :
          LET expected == calculateExpectedTimeUntilExposure(calculationCache, N, c)
              t == ReturnedYears(expected, N, c)
              survival == calculateSurvivalProbability(expected.cache, N, t, c)
              ranks == NextRanks(insertedAt, calculationCache, expected.cache)
          IN  /\ calculationCache' = survival.cache
              /\ insertedAt' = NextRanks(ranks, expected.cache, survival.cache)
              /\ evicted' = Keys(calculationCache) \ Keys(survival.cache)
              /\ op' = "survivalAtExpectedTime"
              /\ args' = Args(N, t, c, Num(0))
              /\ valid' = survival.valid
              /\ threw' = survival.threw
              /\ result' = survival.result
              /\ inner' = expected.result
              /\ hit' = survival.hit
              /\ error' = survival.error
              /\ calls' = Min(calls + 1, MaxCalls)
              /\ UNCHANGED <<formatted, ui, remote, loop, invocation, monitor>>

NextHalf == SurvivalAtExpectedTime

SpecHalf == Init /\ [][NextHalf]_vars

----------------------------------------------------------------------------
(* Properties *)

\* the validator's contract: finite numbers in range and a known category
InContract(N, t, c) ==
    /\ N.kind = "num" /\ N.val >= 1 /\ N.val <= 10000000
    /\ t.kind = "num" /\ t.val >= 0 /\ t.val <= 1000
    /\ c \in {"scientists", "intelligence", "government", "military",
              "corporate", "general"}

ArgsInContract == InContract(args.conspirators, args.years, args.professionType)

\* C1: a call whose arguments fail validation signals an error to its caller
\* (it throws) instead of returning a defaulted result.
C1_InvalidInputIsSignalled ==
    (op # "none" /\ ~valid) => threw

\* C2: validateInputs accepts exactly the arguments inside the contract: finite
\* conspirators in [1, 10,000,000], finite years in [0, 1000], known category.
C2_ValidatorAcceptsExactlyContract ==
    op # "none" => (valid <=> ArgsInContract)

\* C3: every survival call whose arguments pass validation returns a number
\* in [0, 1], never NaN.
C3_SurvivalInUnitInterval ==
    (op = "survival" /\ valid) =>
        (result.kind = "num" /\ result.val >= 0 /\ result.val <= ONE)

\* C4: for validated numeric arguments the survival result is exactly 0 when
\* the exponent -p*N*t is below -500, exactly 1 when it is >= 0 (so for t = 0),
\* and exp(exponent), a positive value, otherwise.
C4_ClampPolicy ==
    (op = "survival" /\ ArgsInContract) =>
        LET e == Exponent(LEAK_RATES[args.professionType],
                          args.conspirators, args.years).val
        IN  /\ result.kind = "num"
            /\ e < -500 * RATE_ONE => result.val = 0
            /\ e >= 0 => result.val = ONE
            /\ args.years.val = 0 => result.val = ONE
            /\ (e >= -500 * RATE_ONE /\ e < 0) =>
                  (result.val > 0 /\ result.val < ONE
                   /\ result.val = MathExp(Num(e)).val)

\* C4 witness: a survival call whose exponent is exactly -500 returned a
\* positive value.
C4_Witness ==
    /\ op = "survival" /\ ArgsInContract
    /\ Exponent(LEAK_RATES[args.professionType], args.conspirators,
                args.years).val = -500 * RATE_ONE
    /\ result.val > 0

\* C5: for arguments inside the contract the exposure result is 1 minus the
\* survival result of the same call, clamped to [0, 1]; the two sum to 1.
C5_ExposureIsComplement ==
    (op = "exposure" /\ ArgsInContract) =>
        /\ result.kind = "num" /\ inner.kind = "num"
        /\ result.val >= 0 /\ result.val <= ONE
        /\ result.val + inner.val = ONE

\* C5 witness: an exposure call with a survival strictly between 0 and 1.
C5_Witness ==
    /\ op = "exposure" /\ ArgsInContract
    /\ inner.val > 0 /\ inner.val < ONE /\ result.val > 0

\* C6: the cache never holds more than CACHE_SIZE_LIMIT entries, and a call
\* that changes a full cache removes exactly one key and adds exactly one.
C6_CacheBounded ==
    [][ /\ Len(calculationCache') <= CACHE_SIZE_LIMIT
        /\ Cardinality(Keys(calculationCache')) = Len(calculationCache')
        /\ (Len(calculationCache) = CACHE_SIZE_LIMIT
            /\ calculationCache' # calculationCache) =>
              /\ Cardinality(Keys(calculationCache) \ Keys(calculationCache')) = 1
              /\ Cardinality(Keys(calculationCache') \ Keys(calculationCache)) = 1
              /\ Len(calculationCache') = CACHE_SIZE_LIMIT ]_vars

\* C6 witness: a full cache from which the last call removed an entry.
C6_Witness ==
    Len(calculationCache) = CACHE_SIZE_LIMIT /\ Cardinality(evicted) = 1

Uncached ==
    CASE op = "survival" ->
            calculateSurvivalProbability(<<>>, args.conspirators, args.years,
                                         args.professionType).result
      [] op = "exposure" ->
            calculateExposureProbability(<<>>, args.conspirators, args.years,
                                         args.professionType).result
      [] op = "expected" ->
            calculateExpectedTimeUntilExposure(<<>>, args.conspirators,
                                               args.professionType).result
      [] op = "series" ->
            generateProbabilityOverTime(<<>>, args.conspirators,
                                        args.professionType, args.maxYears).result
      [] OTHER -> RNone

\* C8: every call returns the value the operation computes for its arguments
\* with the cache disabled.
C8_CacheIsTransparent ==
    op # "none" => result = Uncached

\* C8 witness: a call answered from a full cache.
C8_Witness ==
    hit /\ Len(calculationCache) = CACHE_SIZE_LIMIT /\ op \in {"expected", "series"}

\* C9: the expected time is Infinity exactly when N <= 0 or the leak rate is 0,
\* and is a finite non-negative number whenever validation passed.
C9_SentinelOnlyForDegenerate ==
    op = "expected" =>
        /\ result.kind = "Infinity" <=>
              \/ JsLe(args.conspirators, Num(0))
              \/ /\ args.professionType \in DOMAIN LEAK_RATES
                 /\ LEAK_RATES[args.professionType] = 0
        /\ valid => (result.kind = "num" /\ result.val >= 0)

\* the survival entries of the cache, decoded from their keys
SurvivalEntries ==
    {i \in DOMAIN calculationCache :
        /\ calculationCache[i].key[1] = "survival"
        /\ calculationCache[i].key[2][1] = "digits"
        /\ calculationCache[i].key[3][1] = "digits"}
EntryN(i) == calculationCache[i].key[2][2]
EntryT(i) == calculationCache[i].key[3][2]
EntryC(i) == calculationCache[i].key[4]
EntryP(i) == calculationCache[i].value.val

\* C10: among the survival results computed so far, a result for more years
\* (same N, same category) or for more conspirators (same years, same
\* category) is never larger.
C10_SurvivalMonotone ==
    \A i, j \in SurvivalEntries :
        /\ (EntryC(i) = EntryC(j) /\ EntryN(i) = EntryN(j) /\ EntryT(i) <= EntryT(j))
              => EntryP(i) >= EntryP(j)
        /\ (EntryC(i) = EntryC(j) /\ EntryT(i) = EntryT(j) /\ EntryN(i) <= EntryN(j))
              => EntryP(i) >= EntryP(j)

\* C10 witness: two results for the same N on either side of the clamp.
C10_Witness ==
    \E i, j \in SurvivalEntries :
        /\ EntryN(i) = EntryN(j) /\ EntryT(i) < EntryT(j)
        /\ EntryP(i) > 0 /\ EntryP(i) < ONE /\ EntryP(j) = 0

----------------------------------------------------------------------------
(* C11 *)

\* what is wrong with the arguments of a call: the first parameter that fails
\* and why, in the order validateInputs tests them
FailureOf(N, t, c) ==
    IF N.kind \notin {"num", "NaN", "Infinity"} THEN <<"conspirators", "wrong-type">>
    ELSE IF N.kind # "num" \/ N.val < 1 \/ N.val > 10000000
    THEN <<"conspirators", "out-of-range">>
    ELSE IF t.kind \notin {"num", "NaN", "Infinity"} THEN <<"years", "wrong-type">>
    ELSE IF t.kind # "num" \/ t.val < 0 \/ t.val > 1000
    THEN <<"years", "out-of-range">>
    ELSE IF c \notin {"scientists", "intelligence", "government", "military",
                      "corporate", "general"}
    THEN <<"professionType", "unknown-category">>
    ELSE <<"none", "none">>

\* C11: the error of a failed validation identifies the parameter that failed
\* and why: no other arguments that fail for a different parameter or a
\* different reason (out of range, wrong type, unknown category) produce the
\* same error.
C11_ErrorIdentifiesParameterAndReason ==
    (op # "none" /\ ~valid) =>
        \A N \in FnConspirators, t \in FnYears, c \in FnProfessions :
            validateInputs(N, t, c) = error =>
                FailureOf(N, t, c)
                    = FailureOf(args.conspirators, args.years, args.professionType)

----------------------------------------------------------------------------
(* C12 - C15: the series *)

\* the last call was a series for conspirators and a category inside the
\* contract and a maxYears that is a number or spells one
SeriesInContract ==
    /\ op = "series"
    /\ InContract(args.conspirators, Num(0), args.professionType)
    /\ args.maxYears.kind \in {"num", "string"}

\* the step the tiers give a number of years
Tier(m) == IF m > 200 THEN 10 ELSE IF m > 100 THEN 5 ELSE IF m > 50 THEN 2 ELSE 1

\* a point below 0.01 percent after year 10
Negligible(point) ==
    /\ point.probability.kind = "num"
    /\ point.probability.val < ONE \div 100
    /\ point.year > 10

NoEarlyStop == \A i \in DOMAIN result.series : ~Negligible(result.series[i])

\* C12 as stated: when early termination does not fire the series starts at
\* year 0, increases by the step and ends at year maxYears.
C12_SeriesEndsAtMaxYears ==
    (SeriesInContract /\ NoEarlyStop) =>
        LET s == result.series
        IN  /\ Len(s) >= 1
            /\ s[1].year = 0
            /\ \A i \in 1 .. Len(s) - 1 :
                  s[i + 1].year = s[i].year + Tier(args.maxYears.val)
            /\ s[Len(s)].year = args.maxYears.val

\* C12 amended: when early termination does not fire and maxYears >= 0, the
\* series starts at year 0, increases by the step and ends at the largest
\* multiple of the step that does not exceed maxYears; for a negative maxYears
\* the series is empty.
C12_SeriesEndsAtLastStep ==
    (SeriesInContract /\ NoEarlyStop) =>
        LET s == result.series
            m == args.maxYears.val
        IN  IF m < 0 THEN s = <<>>
            ELSE /\ Len(s) = m \div Tier(m) + 1
                 /\ \A i \in DOMAIN s : s[i].year = (i - 1) * Tier(m)
                 /\ s[Len(s)].year <= m
                 /\ s[Len(s)].year + Tier(m) > m

\* C12 witness: a full series for a maxYears that is no multiple of its step.
C12_Witness ==
    /\ SeriesInContract /\ NoEarlyStop
    /\ args.maxYears.val = 55
    /\ Len(result.series) = 28
    /\ result.series[28].year = 54

\* C13: the step is 1 up to 50 years, 2 up to 100, 5 up to 200 and 10 beyond,
\* and consecutive points differ by exactly that step.
C13_StepTiers ==
    (op = "series" /\ args.maxYears.kind \in {"num", "string"}) =>
        \A i \in 1 .. Len(result.series) - 1 :
            result.series[i + 1].year - result.series[i].year
                = Tier(args.maxYears.val)

\* C13 witness: a series of several points at a tier boundary.
C13_Witness ==
    /\ op = "series" /\ valid
    /\ args.maxYears = Num(200)
    /\ Len(result.series) = 41
    /\ result.series[2].year = 5

\* C14: when validation passed, the series stops short of maxYears only at a
\* point below 0.01 percent after year 10, every scheduled year up to
\* min(10, maxYears) is present, and nothing follows the first such point.
C14_EarlyTermination ==
    (op = "series" /\ valid /\ args.maxYears.kind \in {"num", "string"}) =>
        LET s == result.series
            m == args.maxYears.val
        IN  /\ \A y \in 0 .. Min(10, m) :
                  y % Tier(m) = 0 => \E i \in DOMAIN s : s[i].year = y
            /\ \A i \in 1 .. Len(s) - 1 : ~Negligible(s[i])
            /\ (Len(s) >= 1 /\ s[Len(s)].year + Tier(m) <= m)
                  => Negligible(s[Len(s)])

\* C14 witness: a series cut at year 11 of 20.
C14_Witness ==
    /\ op = "series" /\ valid
    /\ args.maxYears = Num(20)
    /\ Len(result.series) = 12
    /\ Negligible(result.series[12])

\* C15: every point of a series for arguments inside the contract, at a year
\* of the validated range, holds 100 times the survival probability of that
\* year, with the same clamps, and lies in [0, 100].
C15_SeriesMatchesSurvival ==
    SeriesInContract =>
        \A i \in DOMAIN result.series :
            LET point == result.series[i]
            IN  /\ point.probability.kind = "num"
                /\ point.probability.val >= 0
                /\ point.probability.val <= 100 * ONE
                /\ point.year <= 1000 =>
                      point.probability.val =
                          100 * calculateSurvivalProbability(<<>>,
                                    args.conspirators, Num(point.year),
                                    args.professionType).result.val

\* C15 witness: a series with a point strictly inside (0, 100) and a later
\* point clamped to exactly 0.
C15_Witness ==
    /\ SeriesInContract
    /\ \E i, j \in DOMAIN result.series :
          /\ i < j
          /\ result.series[i].probability.val > 0
          /\ result.series[i].probability.val < 100 * ONE
          /\ result.series[j].probability.val = 0

----------------------------------------------------------------------------
(* C16 - C17: formatting *)

\* C16: formatTimeDuration gives 'Never (no conspirators)' for Infinity; for
\* 0 <= years < 1 a whole-day string when the duration is under one month and
\* a month string otherwise; for 1 <= years < 2 one decimal and 'year';
\* otherwise the rounded whole years.
C16_DurationFormat ==
    formatted.fn = "formatTimeDuration" =>
        LET y == formatted.input
            t == formatted.text
        IN  /\ y.kind = "Infinity" => t = Literal("Never (no conspirators)")
            /\ (y.kind = "num" /\ y.val >= 0 /\ y.val < YEAR_ONE) =>
                  IF y.val * MONTHS_PER_YEAR < YEAR_ONE
                  THEN t.number /\ t.decimals = 0 /\ t.suffix \in {" day", " days"}
                  ELSE t.number /\ t.decimals = 0
                          /\ t.suffix \in {" month", " months"}
            /\ (y.kind = "num" /\ y.val >= YEAR_ONE /\ y.val < 2 * YEAR_ONE) =>
                  t.number /\ t.decimals = 1 /\ t.suffix = " year"
            /\ (y.kind = "num" /\ y.val >= 2 * YEAR_ONE) =>
                  /\ t.number /\ t.decimals = 0 /\ t.suffix = " years"
                  /\ 2 * t.digits * YEAR_ONE - 2 * y.val \in -YEAR_ONE .. YEAR_ONE

\* C17: formatProbability(p) for p in [0, 1] gives '< 0.001%' when the
\* percentage is below 0.001, the percentage with 3 decimals below 1, with 2
\* decimals below 10 and with 1 decimal otherwise, each numeral being the
\* nearest to the percentage.
C17_ProbabilityFormat ==
    (/\ formatted.fn = "formatProbability"
     /\ formatted.input.kind = "num"
     /\ formatted.input.val >= 0
     /\ formatted.input.val <= ONE) =>
        LET percentage == formatted.input.val * 100
            t == formatted.text
            Nearest(unit) ==
                /\ t.number /\ t.suffix = "%"
                /\ 2 * (t.digits * unit - percentage) \in -unit .. unit
        IN  IF percentage < ONE \div 1000 THEN t = Literal("< 0.001%")
            ELSE IF percentage < ONE
            THEN t.decimals = 3 /\ Nearest(ONE \div 1000)
            ELSE IF percentage < 10 * ONE
            THEN t.decimals = 2 /\ Nearest(ONE \div 100)
            ELSE t.decimals = 1 /\ Nearest(ONE \div 10)

\* C17 witness: exactly 10 percent is printed with one decimal, as 10.0%.
C17_Witness ==
    /\ formatted.fn = "formatProbability"
    /\ formatted.input = Num(ONE \div 10)
    /\ formatted.text = Numeral(100, 1, "%")

----------------------------------------------------------------------------
(* C18: out-of-range edits *)

\* the text typed is no value of the field's range
OutOfRangeEdit ==
    \/ /\ ui.edit.field = "conspirators"
       /\ \/ ui.edit.typed.kind # "string"
          \/ ui.edit.typed.val < MIN_CONSPIRATORS
          \/ ui.edit.typed.val > MAX_CONSPIRATORS
    \/ /\ ui.edit.field = "years"
       /\ \/ ui.edit.typed.kind # "string"
          \/ ui.edit.typed.val < MIN_YEARS
          \/ ui.edit.typed.val > MAX_YEARS

\* the results on display were computed for other values than the inputs hold
\* and no update is due
StaleResults ==
    /\ ui.debounceTimer = <<>>
    /\ <<ui.shown.conspirators, ui.shown.years>>
          # <<ui.conspirators, ui.yearsActive>>

\* C18: after an out-of-range edit of the conspirators or years input the
\* field keeps the value it had and the constraint is indicated; the value is
\* never clamped and recomputed silently, and stale results are never left on
\* display without feedback.
C18_OutOfRangeEditRejected ==
    /\ OutOfRangeEdit =>
          /\ ui.feedback
          /\ ui.edit.field = "conspirators" => ui.conspirators = ui.edit.before
          /\ ui.edit.field = "years" => ui.yearsActive = ui.edit.before
    /\ StaleResults => ui.feedback

----------------------------------------------------------------------------
(* C19: retries of the remote analysis *)

\* the last query met a transient failure: a network error, a timeout, or an
\* upstream response that was not OK for a passing cause
TransientFailure ==
    remote.upstream \in {"unreached", "AbortError", "ENOTFOUND", "ECONNRESET",
                         "429", "500", "503"}

\* the failure of the last query is on display
Surfaced ==
    /\ remote.stage = "idle"
    /\ remote.results \in {"error", "No analysis received."}

\* C19: a transient failure of the remote analysis request is on display only
\* after the request was made again: the page or the function fetched more
\* than once for the query.
C19_TransientFailureRetried ==
    (TransientFailure /\ Surfaced) =>
        (remote.clientFetches > 1 \/ remote.upstreamFetches > 1)

----------------------------------------------------------------------------
(* C20: the expected time is the half-life *)

\* the tolerance of "0.5 within tolerance": one thousandth
HalfTolerance == ONE \div 1000

NearHalf(p) ==
    /\ p.kind = "num"
    /\ 2 * p.val >= ONE - 2 * HalfTolerance
    /\ 2 * p.val <= ONE + 2 * HalfTolerance

----------------------------------------------------------------------------
(* C21: the bar 'Your Conspiracy' of the comparison chart *)

\* what calculateSurvivalProbability returns for the values on display under
\* the 'government' rate, times 100
DirectEstimate ==
    Bar(calculateSurvivalProbability(<<>>, Num(ui.shown.conspirators),
                                     Num(ui.shown.years), "government").result)

\* C21: after each recalculation by updateCalculations the bar 'Your
\* Conspiracy' of the comparison chart shows 100 times the survival
\* probability the estimator gives for the current conspirator count and the
\* current years active under the 'government' rate.
C21_BarShowsEstimate ==
    (ui.loaded /\ ui.charts /\ ui.left = "completed") =>
        ui.yourConspiracy = DirectEstimate

----------------------------------------------------------------------------
(* C22: the calls that leave the cache alone *)

----------------------------------------------------------------------------
(* C23: the series loop ends *)

\* C23: for every valid N and category and every maxYears, values far above
\* 1000 and Infinity included, the loop of generateProbabilityOverTime ends:
\* year exceeds maxYears or the probability becomes negligible.
C23_SeriesTerminates == (loop.pc = "loop") ~> (loop.pc = "done")

\* C23 witness: a series for maxYears = Infinity ended beyond year 1000.
C23_Witness ==
    /\ loop.pc = "done"
    /\ loop.maxYears = Infinity
    /\ loop.year > MAX_YEARS
    /\ loop.length > 1

----------------------------------------------------------------------------
(* C24: the credibility banner while an analysis is in flight *)

InFlightStatuses == {"Assessing", "Awaiting response"}

\* C24: an updateCalculations run that finds the credibility level at
\* 'Assessing' or 'Awaiting response' leaves the level and the description as
\* they are; one that finds any other non-empty status replaces them with the
\* credibility of the survival probability.
C24_BannerKeptInFlight ==
    IF ui.run.before.status \in InFlightStatuses
    THEN ui.run.after = ui.run.before
    ELSE ui.run.before.status # "" =>
            /\ ui.run.after = ui.run.math
            /\ ui.run.after.status \in {"Unlikely", "Possible"}

\* C24 witness: the debounce timer ran updateCalculations for a moved slider
\* while the request was with the function, and the banner still awaits.
C24_Witness ==
    /\ remote.stage = "sent"
    /\ ui.run.before.status = "Awaiting response"
    /\ ui.credibility.status = "Awaiting response"
    /\ ui.shown.conspirators = ui.conspirators
    /\ ui.conspirators \in SlidConspirators

----------------------------------------------------------------------------
(* C25: the analysis button *)

\* C25: once handlePerplexityQuery has passed its input checks the button is
\* disabled as long as the request is in flight; when the handler ends, by
\* an answer or by an error, the button is enabled and the credibility status
\* is 'Unlikely', 'Possible', 'Uncertain' or 'Error'.
C25_ButtonReleased ==
    [][/\ remote'.stage # "idle" => remote'.disabled
       /\ (remote.stage # "idle" /\ remote'.stage = "idle") =>
             /\ ~remote'.disabled
             /\ ui'.credibility.status \in Credibilities \cup {"Error"}]_vars

\* C25 witness: a query ended by an error of the function, the button is
\* enabled and the status is 'Error'.
C25_Witness ==
    /\ remote.stage = "idle"
    /\ remote.response.statusCode = 500
    /\ remote.results = "error"
    /\ ~remote.disabled
    /\ ui.credibility.status = "Error"

----------------------------------------------------------------------------
(* C26: failures of the remote analysis service *)

\* the service failed for the last query: the upstream API answered with a
\* status that is not OK, timed out, or a network call threw
ServiceFailed ==
    remote.upstream \in UpstreamStatuses \cup UpstreamErrors \cup {"unreached"}

\* C26: when the remote analysis service fails, the flow of the page ends
\* with an error message in the results panel and the credibility status
\* 'Error', never with an analysis result or the status 'Uncertain',
\* 'Possible' or 'Unlikely'.
C26_ServiceFailureShown ==
    (ServiceFailed /\ remote.stage = "idle") =>
        /\ remote.results = "error"
        /\ ui.credibility.status = "Error"

----------------------------------------------------------------------------
(* C27: what the serverless function lets through to the upstream API *)

\* the request is a POST with a JSON body whose conspiracyName and description
\* are non-empty strings within their length limits, and the key is configured
Admissible ==
    /\ invocation.event.httpMethod = "POST"
    /\ invocation.event.body.json = "object"
    /\ invocation.event.body.conspiracyName = "text"
    /\ invocation.event.body.description = "text"
    /\ invocation.apiKey

\* the status code of the response that refuses the request
Refusal ==
    IF invocation.event.httpMethod = "OPTIONS" THEN 200
    ELSE IF invocation.event.httpMethod # "POST" THEN 405
    ELSE IF invocation.event.body.json # "object"
               \/ invocation.event.body.conspiracyName # "text"
               \/ invocation.event.body.description # "text"
    THEN 400
    ELSE 500

\* C27: the function fetches the upstream API only for a POST whose body is
\* JSON with a conspiracyName and a description that are non-empty strings of
\* at most 200 and 1000 characters, the key being configured; in every other
\* case it returns without the fetch, with 200 for OPTIONS, 405 for another
\* method, 400 for bad input and 500 for a missing key; every response has
\* the CORS headers.
C27_OnlyAdmissibleFetched ==
    invocation.event.httpMethod # "none" =>
        /\ invocation.response.fetched => Admissible
        /\ ~Admissible =>
              /\ ~invocation.response.fetched
              /\ ~invocation.response.threw
              /\ invocation.response.statusCode = Refusal
        /\ ~invocation.response.threw
        /\ invocation.response.headers

----------------------------------------------------------------------------
(* C28: debounced input changes *)

\* a change of an input field or a slider
InputEvent ==
    ConspiratorsInput \/ YearsInput \/ ConspiratorsSlider \/ YearsSlider

\* C28: at most one debounce timer is pending; each input event cancels the
\* pending timer and sets a new one; updateCalculations runs for a timer only
\* DEBOUNCE_MS after the last input event, so once for a burst of events less
\* than DEBOUNCE_MS apart, leaves no timer pending and reads the latest
\* values of the inputs.
C28_Debounced ==
    [][/\ Len(ui'.debounceTimer) <= 1
       /\ InputEvent => ui'.debounceTimer = <<0>>
       /\ updateCalculations =>
             /\ ui.debounceTimer = <<DebounceTicks>>
             /\ ui'.debounceTimer = <<>>
             /\ ui'.left = "completed" =>
                   /\ ui'.shown.conspirators = ui.conspirators
                   /\ ui'.shown.years = ui.yearsActive]_vars

\* C28 witness: after an edit of the years and a move of the slider less than
\* DEBOUNCE_MS later the timer of the second ran updateCalculations, and the
\* results are those of the values set last.
C28_Witness ==
    /\ ui.served = 2
    /\ ui.edit = NoEdit
    /\ ui.debounceTimer = <<>>
    /\ ui.left = "completed"
    /\ ui.conspirators \in SlidConspirators
    /\ ui.yearsActive = YEARS_SLIDER_MAX
    /\ ui.shown.conspirators = ui.conspirators
    /\ ui.shown.years = ui.yearsActive

----------------------------------------------------------------------------
(* C29: the guard isCalculating *)

\* C29: after every updateCalculations call, left by completion, by the early
\* return on conspirators < 1 or years < 0, or by an exception inside the
\* body, isCalculating is false, so no later call is skipped by the guard.
C29_GuardReleased ==
    /\ ~ui.isCalculating
    /\ ui.left # "skipped"

\* C29 witness: updateCalculations was left by an exception of the comparison
\* chart after an earlier call was left by the early return, and the guard is
\* free.
C29_Witness ==
    /\ ui.left = "threw"
    /\ ui.warned = FALSE
    /\ ui.edit.field = "conspirators"
    /\ ui.edit.before = 0
    /\ ~ui.isCalculating

----------------------------------------------------------------------------
(* C30: the metrics of PerformanceMonitor *)

RECURSIVE SumOf(_)
SumOf(values) ==
    IF values = <<>> THEN 0 ELSE Head(values) + SumOf(Tail(values))

\* the last n values of a sequence
LastOf(values, n) == SubSeq(values, Len(values) - n + 1, Len(values))

\* the statistics of a metric agree with the values recorded for it
MetricAgrees(name) ==
    LET metric == monitor.metrics[name]
        recorded == monitor.recorded[name]
    IN  IF recorded = <<>> THEN ~metric.created
        ELSE /\ metric.created
             /\ metric.values = LastOf(recorded, Min(Len(recorded), VALUES_KEPT))
             /\ metric.count = Len(recorded)
             /\ metric.sum = SumOf(recorded)
             /\ metric.min.kind = "num"
             /\ metric.max.kind = "num"
             /\ metric.min.val <= metric.max.val
             /\ \A i \in DOMAIN recorded :
                   /\ metric.min.val <= recorded[i]
                   /\ recorded[i] <= metric.max.val

\* getMetric gives the average and the latest of the values recorded
GetMetricAgrees(name) ==
    LET recorded == monitor.recorded[name]
        got == getMetric(monitor.metrics, name)
    IN  IF recorded = <<>> THEN got.null
        ELSE /\ ~got.null
             /\ got.average = Quot(SumOf(recorded), Len(recorded))
             /\ got.latest = recorded[Len(recorded)]

\* C30: after any sequence of recordMetric calls, for every metric: values
\* holds the most recent min(count, window) values in recording order, count
\* is the number of recordings, sum is the total of all values recorded, min
\* and max bound every value recorded with min <= max, and getMetric returns
\* average = sum / count and latest = the value recorded last.
C30_MetricsAgree ==
    \A name \in MetricNames : MetricAgrees(name) /\ GetMetricAgrees(name)

\* C30 witness: more values were recorded for a metric than are kept, the
\* value dropped differs from those kept, and getMetric was called for it.
C30_Witness ==
    \E name \in MetricNames :
        /\ Len(monitor.recorded[name]) > VALUES_KEPT
        /\ monitor.recorded[name][1] # monitor.recorded[name][2]
        /\ monitor.got = getMetric(monitor.metrics, name)
        /\ ~monitor.got.null

====
